---- MODULE Spec2Model ----
(***************************************************************************)
(* Model of the contract fetcher and type generator (src/index.mjs).       *)
(*                                                                         *)
(* One behaviour is one invocation of the script against a registry and an *)
(* output directory, optionally followed by a second invocation of the     *)
(* same command line against the same registry.  Strings are sequences of  *)
(* tokens, so that name.replace(" ", "") and the path templates are        *)
(* computed, not assumed.  A file that may be absent is a set holding at   *)
(* most one content.                                                       *)
(***************************************************************************)
EXTENDS Naturals, Sequences, FiniteSets, TLC

\* Longest registry (number of items of data.data) the model explores.
MaxContracts == 2

\* ---------------------------------------------------------------- inputs
\* item.name of the registry: "AB", "A B" and "A  B" (two spaces).
Names == { <<"A", "B">>, <<"A", " ", "B">>, <<"A", " ", " ", "B">> }
\* contract.address_hash
Addresses == { "0xabc", "0xdef" }
\* contract.inserted_at
Dates == { "2023-01-01", "2023-09-11" }
\* JSON.parse(data.result) of the ABI endpoint: the document served for the
\* contract deployed at an address.
AbiDocument(address) == IF address = "0xabc" THEN "[]" ELSE "[owner]"

Descriptors ==
  { [name |-> n, address |-> a, date |-> t, abi |-> AbiDocument(a)] :
      n \in Names, a \in Addresses, t \in Dates }

RECURSIVE SeqsUpTo(_, _)
SeqsUpTo(S, n) ==
  IF n = 0 THEN { <<>> }
  ELSE LET shorter == SeqsUpTo(S, n - 1)
       IN  shorter \cup { Append(s, x) : s \in { t \in shorter : Len(t) = n - 1 }, x \in S }

Registries == SeqsUpTo(Descriptors, MaxContracts)

\* ------------------------------------------------------- pure functions
\* String.prototype.replace(" ", "") with a string pattern: the FIRST
\* occurrence only.
RECURSIVE replace(_)
replace(s) ==
  IF s = <<>> THEN <<>>
  ELSE IF Head(s) = " " THEN Tail(s)
  ELSE <<Head(s)>> \o replace(Tail(s))

\* `${OUTDIR}/${_name}.sol`
SolDir(n) == n \o <<".sol">>

\* JSON.stringify({date, address, contractName: _name, abi: ABI}, null, 2)
ContractInfo(c) ==
  [date |-> c.date, address |-> c.address,
   contractName |-> replace(c.name), abi |-> c.ABI]

\* variants of the comparison: by inserted_at, and none at all
IsStaleByDate(c, existing) == c.date # existing.date
IsStaleAlways(c, existing) == TRUE
\* contract.address !== existingContract.address
IsStale(c, existing) == c.address # existing.address

\* variant: the else branch leaves the flag alone
OnMissingKeep(su) == su
\* the else branch of fs.existsSync(contractFilePath): shouldUpdate = true
OnMissing(su) == TRUE

\* a freshly created subdirectory
EmptyDir == [json |-> {}, data |-> {}, bindings |-> {}, contract |-> {}, index |-> {}]

\* if (!fs.existsSync(dir)) fs.mkdirSync(dir)
mkdirSync(d, p) == IF p \in DOMAIN d THEN d ELSE d @@ (p :> EmptyDir)

\* fs.existsSync(`${OUTDIR}/${_name}.sol/${_name}.json`)
ArtifactExists(d, n) == SolDir(n) \in DOMAIN d /\ d[SolDir(n)].json # {}
\* JSON.parse(fs.readFileSync(contractFilePath))
ReadArtifact(d, n) == CHOOSE a \in d[SolDir(n)].json : TRUE

\* exports 1)-3): <_name>.json and <_name>Data.{js,mjs,ts}
WriteExports(d, c) ==
  LET n == replace(c.name)
  IN  [d EXCEPT ![SolDir(n)].json = {ContractInfo(c)},
                ![SolDir(n)].data =
                     {[symbol |-> n \o <<"Data">>, value |-> ContractInfo(c)]}]

\* export 4): runTypeChain reads <_name>.json and writes the typed bindings
runTypeChain(d, c) ==
  LET n == replace(c.name)
      a == ReadArtifact(d, n)
  IN  [d EXCEPT ![SolDir(n)].bindings =
                     {[contractName |-> a.contractName, abi |-> a.abi]}]

\* exports 5)-6): <_name>Contract.{js,mjs,ts} and index.{ts,js,mjs}
WriteWrappers(d, c) ==
  LET n == replace(c.name)
  IN  [d EXCEPT ![SolDir(n)].contract =
                     {[factory |-> <<"get">> \o n \o <<"Contract">>,
                       imports |-> n \o <<"Data">>]},
                ![SolDir(n)].index = {<<n \o <<"Data">>, n \o <<"Contract">>, n>>}]

\* data.map(item => `export * from "./${name}.sol/${name}.ts";`)
TypesFile(cs) ==
  [j \in 1..Len(cs) |->
     [dir |-> SolDir(cs[j].name), file |-> cs[j].name \o <<".ts">>]]

\* variant: the lines are added to the file already there
WriteTypesMerged(old, cs) ==
  IF old = {} THEN {TypesFile(cs)} ELSE { o \o TypesFile(cs) : o \in old }
\* fs.writeFileSync(`${OUTDIR}/types.ts`, typesFile) replaces the file
WriteTypes(old, cs) == {TypesFile(cs)}

\* variant: the catch returns what was fetched so far
getContractsCatchReturn(cs) == [pc |-> "loop", data |-> cs]
\* the catch of getContracts rethrows: `data` is never assigned
getContractsCatch(cs) == [pc |-> "aborted", data |-> <<>>]

\* ------------------------------------------- earlier output of the tool
\* The output directory a run starts from is what an earlier completed run
\* of the tool left: each cached contract fully generated.
GenerateContract(d, c) ==
  WriteWrappers(runTypeChain(WriteExports(mkdirSync(d, SolDir(replace(c.name))), c), c), c)

RECURSIVE GenerateAll(_, _)
GenerateAll(d, cs) ==
  IF cs = <<>> THEN d ELSE GenerateAll(GenerateContract(d, Head(cs)), Tail(cs))

EmptyDisk == [p \in {} |-> EmptyDir]

CachedAB == [name |-> <<"A", "B">>, address |-> "0xabc", date |-> "2023-01-01", ABI |-> "[]"]
CachedA_B == [name |-> <<"A", " ", " ", "B">>, address |-> "0xabc", date |-> "2023-01-01", ABI |-> "[]"]
EarlierRuns == { <<>>, <<CachedAB>>, <<CachedA_B>>, <<CachedAB, CachedA_B>> }

\* ------------------------------------------------------------------ state
VARIABLES
  registry,      \* data.data of the registry endpoint, with each ABI document
  update,        \* process.argv.includes("--update")
  outdir,        \* OUTDIR exists
  disk,          \* subdirectory path -> its files
  typesTs,       \* OUTDIR/types.ts
  pc,            \* position of the script
  shouldUpdate,  \* the global flag
  contracts,     \* local of getContracts
  data,          \* const data = await getContracts(...)
  i,             \* position of the running for..of loop
  newer,         \* console: "There's a newer version" notices, by position
  latest,        \* console: "We have the latest version" lines, by position
  generating,    \* console: "...generating contract & type" lines, by position
  missing,       \* positions whose artifact did not exist when compared
  typesWritten,  \* this run wrote types.ts
  fetchError,    \* why getContracts threw in this run, or "none"
  diskAtStart,   \* disk when this run started
  typesAtStart,  \* types.ts when this run started
  rerun,         \* this is the second invocation
  firstDone      \* the first invocation completed

vars == <<registry, update, outdir, disk, typesTs, pc, shouldUpdate, contracts,
          data, i, newer, latest, generating, missing, typesWritten, fetchError,
          diskAtStart, typesAtStart, rerun, firstDone>>

fsVars == <<outdir, disk, typesTs>>
logVars == <<newer, latest, generating, missing>>
runVars == <<registry, update, diskAtStart, typesAtStart, rerun, firstDone>>

Init ==
  /\ registry \in Registries
  /\ update \in BOOLEAN
  /\ \E earlier \in EarlierRuns :
       /\ disk = GenerateAll(EmptyDisk, earlier)
       /\ typesTs = IF earlier = <<>> THEN {} ELSE {TypesFile(earlier)}
       /\ outdir \in IF earlier = <<>> THEN BOOLEAN ELSE {TRUE}
  /\ pc = "boot"
  /\ shouldUpdate = update
  /\ contracts = <<>>
  /\ data = <<>>
  /\ i = 1
  /\ newer = {} /\ latest = {} /\ generating = {} /\ missing = {}
  /\ typesWritten = FALSE
  /\ fetchError = "none"
  /\ diskAtStart = disk
  /\ typesAtStart = typesTs
  /\ rerun = FALSE
  /\ firstDone = FALSE

\* ---------------------------------------------------------------- actions
\* if (!fs.existsSync(OUTDIR)) fs.mkdirSync(OUTDIR)
Bootstrap ==
  /\ pc = "boot"
  /\ outdir' = TRUE
  /\ pc' = "fetchRegistry"
  /\ UNCHANGED <<disk, typesTs, shouldUpdate, contracts, data, i, typesWritten, fetchError>>
  /\ UNCHANGED logVars /\ UNCHANGED runVars

\* getContracts: fetch(API_URL), the success check, the map to descriptors
FetchRegistry ==
  /\ pc = "fetchRegistry"
  /\ \E outcome \in {"ok", "networkError", "notSuccess"} :
       IF outcome = "ok"
       THEN /\ contracts' = [j \in 1..Len(registry) |->
                               [name |-> registry[j].name, address |-> registry[j].address,
                                date |-> registry[j].date, ABI |-> "undefined"]]
            /\ pc' = "fetchABI"
            /\ UNCHANGED <<data, fetchError>>
       ELSE /\ contracts' = <<>>
            /\ pc' = getContractsCatch(<<>>).pc
            /\ data' = getContractsCatch(<<>>).data
            /\ fetchError' = outcome
  /\ i' = 1
  /\ UNCHANGED <<shouldUpdate, typesWritten>>
  /\ UNCHANGED fsVars /\ UNCHANGED logVars /\ UNCHANGED runVars

\* getContracts: for (const contract of contracts) fetch(contract.ABIUrl)
FetchABI ==
  /\ pc = "fetchABI"
  /\ i <= Len(contracts)
  /\ \E outcome \in {"ok", "networkError", "badJson"} :
       IF outcome = "ok"
       THEN /\ contracts' = [contracts EXCEPT ![i].ABI = registry[i].abi]
            /\ i' = i + 1
            /\ UNCHANGED <<pc, data, fetchError>>
       ELSE /\ contracts' = <<>>
            /\ pc' = getContractsCatch(contracts).pc
            /\ data' = getContractsCatch(contracts).data
            /\ i' = 1
            /\ fetchError' = outcome
  /\ UNCHANGED <<shouldUpdate, typesWritten>>
  /\ UNCHANGED fsVars /\ UNCHANGED logVars /\ UNCHANGED runVars

\* getContracts: return contracts; const data = await getContracts(...)
GetContractsReturn ==
  /\ pc = "fetchABI"
  /\ i > Len(contracts)
  /\ data' = contracts
  /\ contracts' = <<>>
  /\ i' = 1
  /\ pc' = "loop"
  /\ UNCHANGED <<shouldUpdate, typesWritten, fetchError>>
  /\ UNCHANGED fsVars /\ UNCHANGED logVars /\ UNCHANGED runVars

\* one iteration of the main loop up to `await runTypeChain`
ProcessContract ==
  /\ pc = "loop"
  /\ i <= Len(data)
  /\ LET c == data[i]
         n == replace(c.name)
         exists == ArtifactExists(disk, n)
         stale == exists /\ IsStale(c, ReadArtifact(disk, n))
         su == IF exists THEN shouldUpdate ELSE OnMissing(shouldUpdate)
     IN  IF exists /\ stale /\ ~shouldUpdate
         THEN \* notice and continue
              /\ newer' = newer \cup {i}
              /\ i' = i + 1
              /\ UNCHANGED <<disk, pc, shouldUpdate, latest, generating, missing>>
         ELSE IF exists /\ ~stale
         THEN \* up to date and continue
              /\ latest' = latest \cup {i}
              /\ i' = i + 1
              /\ UNCHANGED <<disk, pc, shouldUpdate, newer, generating, missing>>
         ELSE \* mkdir, log, exports 1)-3)
              /\ shouldUpdate' = su
              /\ missing' = IF exists THEN missing ELSE missing \cup {i}
              /\ generating' = generating \cup {i}
              /\ disk' = IF su THEN WriteExports(mkdirSync(disk, SolDir(n)), c)
                               ELSE mkdirSync(disk, SolDir(n))
              /\ pc' = IF su THEN "typechain" ELSE "loop"
              /\ i' = IF su THEN i ELSE i + 1
              /\ UNCHANGED <<newer, latest>>
  /\ UNCHANGED <<outdir, typesTs, contracts, data, typesWritten, fetchError>>
  /\ UNCHANGED runVars

\* runTypeChain resolves; exports 5)-6) follow in the same turn
TypeChainOk ==
  /\ pc = "typechain"
  /\ disk' = WriteWrappers(runTypeChain(disk, data[i]), data[i])
  /\ i' = i + 1
  /\ pc' = "loop"
  /\ UNCHANGED <<outdir, typesTs, shouldUpdate, contracts, data, typesWritten, fetchError>>
  /\ UNCHANGED logVars /\ UNCHANGED runVars

\* runTypeChain rejects: the top-level await throws and the process exits
TypeChainFail ==
  /\ pc = "typechain"
  /\ pc' = "aborted"
  /\ UNCHANGED <<shouldUpdate, contracts, data, i, typesWritten, fetchError>>
  /\ UNCHANGED fsVars /\ UNCHANGED logVars /\ UNCHANGED runVars

\* if (shouldUpdate) write types.ts
Aggregate ==
  /\ pc = "loop"
  /\ i > Len(data)
  /\ IF shouldUpdate
     THEN /\ typesTs' = WriteTypes(typesTs, data)
          /\ typesWritten' = TRUE
     ELSE UNCHANGED <<typesTs, typesWritten>>
  /\ pc' = "done"
  /\ UNCHANGED <<outdir, disk, shouldUpdate, contracts, data, i, fetchError>>
  /\ UNCHANGED logVars /\ UNCHANGED runVars

\* the same command line is run a second time against the same registry
Rerun ==
  /\ pc \in {"done", "aborted"}
  /\ ~rerun
  /\ rerun' = TRUE
  /\ firstDone' = (pc = "done")
  /\ pc' = "boot"
  /\ shouldUpdate' = update
  /\ contracts' = <<>>
  /\ data' = <<>>
  /\ i' = 1
  /\ newer' = {} /\ latest' = {} /\ generating' = {} /\ missing' = {}
  /\ typesWritten' = FALSE
  /\ fetchError' = "none"
  /\ diskAtStart' = disk
  /\ typesAtStart' = typesTs
  /\ UNCHANGED <<registry, update>>
  /\ UNCHANGED fsVars

Next ==
  \/ Bootstrap
  \/ FetchRegistry
  \/ FetchABI
  \/ GetContractsReturn
  \/ ProcessContract
  \/ TypeChainOk
  \/ TypeChainFail
  \/ Aggregate
  \/ Rerun

Spec == Init /\ [][Next]_vars

\* ----------------------------------------------------------------- claims
\* _name of the descriptor at position j of the fetched list
NameAt(j) == replace(data[j].name)
\* the completed run compared every descriptor
Completed == pc = "done"
\* the artifact of position j as it was when the run started
CachedAtStart(j) == ReadArtifact(diskAtStart, NameAt(j))
\* the last position of the fetched list that shares j's subdirectory
LastOfName(j) ==
  CHOOSE k \in j..Len(data) :
    /\ NameAt(k) = NameAt(j)
    /\ \A m \in (k + 1)..Len(data) : NameAt(m) # NameAt(j)

\* C1: in a completed run started without --update, every descriptor whose
\* cached artifact records another address than the remote one got the
\* "newer version" notice and its subdirectory is as it was at the start.
C1_StaleIsGatedWithoutUpdate ==
  (Completed /\ ~update) =>
    \A j \in 1..Len(data) :
      (ArtifactExists(diskAtStart, NameAt(j))
         /\ CachedAtStart(j).address # data[j].address)
      => (j \in newer /\ disk[SolDir(NameAt(j))] = diskAtStart[SolDir(NameAt(j))])

\* C2 (as stated, for a run started with --update; the claim covers runs with
\* and without it): after a completed run, the artifact of every descriptor
\* that had none when it was processed exists and holds that descriptor's
\* date, address, sanitized contractName and ABI.
C2_MissingArtifactHoldsDescriptor ==
  (Completed /\ update) =>
    \A j \in missing :
      /\ ArtifactExists(disk, NameAt(j))
      /\ ReadArtifact(disk, NameAt(j)) =
           [date |-> data[j].date, address |-> data[j].address,
            contractName |-> NameAt(j), abi |-> data[j].ABI]

\* C2 (amended): after a completed run, with or without --update, the artifact
\* of every descriptor that had none when it was processed exists; it holds
\* that descriptor's date, address, contractName and ABI when no later
\* descriptor of the list with the same sanitized name has another address.
C2_MissingArtifactIsGenerated ==
  Completed =>
    \A j \in missing :
      /\ ArtifactExists(disk, NameAt(j))
      /\ (\A k \in (j + 1)..Len(data) :
            NameAt(k) = NameAt(j) => data[k].address = data[j].address)
         => ReadArtifact(disk, NameAt(j)) =
              [date |-> data[j].date, address |-> data[j].address,
               contractName |-> NameAt(j), abi |-> data[j].ABI]

\* a run without --update generated a missing artifact, and a later descriptor
\* of the same subdirectory and address, with another date, left it alone
C2_Witness ==
  /\ Completed /\ ~update
  /\ \E j \in missing : \E k \in (j + 1)..Len(data) :
       /\ NameAt(k) = NameAt(j)
       /\ data[k].address = data[j].address
       /\ data[k].date # data[j].date
       /\ ReadArtifact(disk, NameAt(j)).date = data[j].date

\* C3 (as stated): after a completed run with --update, the artifact of every
\* fetched descriptor records that descriptor's remote address.
C3_EveryArtifactConverged ==
  (Completed /\ update) =>
    \A j \in 1..Len(data) :
      /\ ArtifactExists(disk, NameAt(j))
      /\ ReadArtifact(disk, NameAt(j)).address = data[j].address

\* C3 (amended): after a completed run with --update, the artifact of every
\* fetched descriptor exists and records the remote address of the last
\* descriptor of the list with that sanitized name.
C3_ArtifactConvergedToLastOfName ==
  (Completed /\ update) =>
    \A j \in 1..Len(data) :
      /\ ArtifactExists(disk, NameAt(j))
      /\ ReadArtifact(disk, NameAt(j)).address = data[LastOfName(j)].address

\* a run with --update regenerated an artifact that recorded another address
C3_Witness ==
  /\ Completed /\ update
  /\ \E j \in generating :
       /\ ArtifactExists(diskAtStart, NameAt(j))
       /\ CachedAtStart(j).address # data[j].address
       /\ LastOfName(j) = j
       /\ ReadArtifact(disk, NameAt(j)).address = data[j].address

C5_TypesOnlyAfterGeneration ==
  (Completed /\ data # <<>> /\ generating = {}) => ~typesWritten

\* C6: when the run writes types.ts it holds one line per fetched descriptor,
\* whose path is that contract's subdirectory <_name>.sol, which exists.
C6_TypesPathsAreSubdirectories ==
  (Completed /\ typesWritten) =>
    \A lines \in typesTs :
      /\ Len(lines) = Len(data)
      /\ \A j \in 1..Len(data) :
           /\ lines[j].dir = SolDir(NameAt(j))
           /\ lines[j].dir \in DOMAIN disk

\* C7: a second completed run with --update, after a completed first run with
\* --update on the same registry, leaves every file as the first run left it.
C7_SecondRunChangesNothing ==
  (rerun /\ firstDone /\ update /\ Completed) =>
    (disk = diskAtStart /\ typesTs = typesAtStart)

\* two completed --update runs over two descriptors of one subdirectory with
\* different addresses: the second run regenerated and ended where it began
C7_Witness ==
  /\ rerun /\ firstDone /\ update /\ Completed
  /\ generating # {}
  /\ \E j \in 1..Len(data) : \E k \in (j + 1)..Len(data) :
       NameAt(j) = NameAt(k) /\ data[j].address # data[k].address

\* C8: a contract that is generated gets the subdirectory <S>.sol and the data
\* constant <S>Data, S being its name without any whitespace.
C8_WhitespaceStripped ==
  \A j \in generating :
    (j <= Len(data) /\ (j < i \/ pc \in {"typechain", "aborted", "done"})) =>
      LET NotSpace(ch) == ch # " "
          S == SelectSeq(data[j].name, NotSpace)
      IN  /\ NameAt(j) = S
          /\ SolDir(S) \in DOMAIN disk
          /\ \A m \in disk[SolDir(S)].data : m.symbol = S \o <<"Data">>

\* C9: when a fetch of getContracts fails, the run ends in error and no
\* subdirectory, artifact, derived file or types.ts was created or modified.
C9_FailedFetchWritesNothing ==
  fetchError # "none" =>
    (pc = "aborted" /\ disk = diskAtStart /\ typesTs = typesAtStart
       /\ generating = {})

\* an ABI document that is not JSON aborted a run that had artifacts to create
C9_Witness ==
  /\ fetchError = "badJson"
  /\ pc = "aborted"
  /\ Len(registry) = MaxContracts
  /\ \E j \in 1..Len(registry) : ~ArtifactExists(disk, replace(registry[j].name))

\* C10: at the end of every run, completed or aborted, every artifact of the
\* output directory is accompanied by the data modules, bindings, wrapper and
\* index generated from that artifact.
C10_ArtifactHasItsDerivedFiles ==
  pc \in {"done", "aborted"} =>
    \A p \in DOMAIN disk : \A a \in disk[p].json :
      /\ disk[p].data = {[symbol |-> a.contractName \o <<"Data">>, value |-> a]}
      /\ disk[p].bindings = {[contractName |-> a.contractName, abi |-> a.abi]}
      /\ disk[p].contract # {}
      /\ disk[p].index # {}

====
